---- MODULE Spec2Model ----
(***************************************************************************)
(* Model of scripts/create_favicons.py: the favicon generator.  The script *)
(* is one linear procedure; every statement that changes the canvas, the   *)
(* locals or the file system is an action, and the arithmetic of the       *)
(* gradient (Python floats, IEEE-754 binary64, round to nearest even) is   *)
(* computed bit for bit on fixed-point bit vectors.                        *)
(***************************************************************************)
EXTENDS Integers, Sequences, FiniteSets, TLC

VARIABLES
    pc,       \* position in the script
    dir,      \* logo_dir on disk: "absent", "dir", or "file" (a non-directory)
    disk,     \* files inside logo_dir: file name -> contents
    written,  \* names of the files the current run has saved
    idx,      \* position of the exporter loop in its list of (size, filename)
    size,     \* the loop variable `size` (side of the current canvas)
    img,      \* the canvas `img`: its side, its pixels on the ray below the centre, its accent draw calls
    radius,   \* draw_circle_gradient's `radius` (and the value it returns)
    cx,       \* draw_circle_gradient's `cx`
    cy,       \* draw_circle_gradient's `cy`
    i,        \* the ring index of draw_circle_gradient's loop
    discs,    \* number of draw.ellipse calls the gradient loop has made on this canvas
    base,     \* the image reopened from favicon-32x32.png
    icons,    \* the list `icons` of resized images
    err,      \* the uncaught exception that ended the run, "" when none
    run,      \* which invocation of the script this is (1 = first)
    prev      \* the disk as the previous invocation left it

vars == <<pc, dir, disk, written, idx, size, img, radius, cx, cy, i, discs,
          base, icons, err, run, prev>>

(***************************************************************************)
(* Bounds of the model.                                                    *)
(***************************************************************************)
\* Largest canvas side given to draw_circle_gradient when it is checked on its own.
MaxSize == 32
\* Number of invocations of the script in succession.
MaxRuns == 2

(***************************************************************************)
(* The script's constants.                                                 *)
(***************************************************************************)
colors == << <<46, 227, 255>>, <<0, 197, 161>> >>
background == <<5, 12, 26>>
Png16 == "favicon-16x16.png"
Png32 == "favicon-32x32.png"
PngApple == "apple-touch-icon.png"
Ico == "favicon.ico"
\* the list the exporter loop iterates over
targets == << <<16, Png16>>, <<32, Png32>>, <<180, PngApple>> >>
ico_sizes == <<16, 32, 64>>
FileNames == {Png16, Png32, PngApple, Ico}

(***************************************************************************)
(* Python float arithmetic (IEEE-754 binary64, round to nearest, ties to   *)
(* even).  A non-negative double is held exactly, as a fixed-point number  *)
(* of Limbs limbs of LimbBits bits, least significant first, with FracBits *)
(* bits after the binary point: x = SUM x[k] * 2^(LimbBits*(k-1)-FracBits).*)
(* Every double the script computes for a radius below 2^9 is such a       *)
(* number.  Each operation computes the exact result and rounds it to      *)
(* MantBits significant bits, as the hardware does.                        *)
(***************************************************************************)
MantBits == 53
LimbBits == 16
Limbs == 5
FracBits == 64
LimbIx == 1..Limbs
Base == 2 ^ LimbBits

Pow2(n) == IF n = 0 THEN 1 ELSE 2 ^ n

FZero == [k \in LimbIx |-> 0]
\* float(n) for an int 0 <= n < 2^16
FromInt(n) == [k \in LimbIx |-> IF k = FracBits \div LimbBits + 1 THEN n ELSE 0]
\* 2^b as a fixed-point number, for a bit position 0 <= b < Limbs * LimbBits
BitAt(b) == [k \in LimbIx |-> IF k = b \div LimbBits + 1 THEN Pow2(b % LimbBits) ELSE 0]

\* exact x + y, limb by limb from limb k with the carry coming in
RECURSIVE AddFrom(_, _, _, _)
AddFrom(x, y, k, carry) ==
    IF k > Limbs THEN <<>>
    ELSE <<(x[k] + y[k] + carry) % Base>>
         \o AddFrom(x, y, k + 1, (x[k] + y[k] + carry) \div Base)

\* exact x - y (x >= y), limb by limb with the borrow coming in
RECURSIVE SubFrom(_, _, _, _)
SubFrom(x, y, k, borrow) ==
    IF k > Limbs THEN <<>>
    ELSE <<(x[k] - y[k] - borrow + Base) % Base>>
         \o SubFrom(x, y, k + 1, IF x[k] - y[k] - borrow < 0 THEN 1 ELSE 0)

\* exact c * x for an int 0 <= c < 2^12
RECURSIVE MulFrom(_, _, _, _)
MulFrom(c, x, k, carry) ==
    IF k > Limbs THEN <<>>
    ELSE <<(c * x[k] + carry) % Base>>
         \o MulFrom(c, x, k + 1, (c * x[k] + carry) \div Base)

\* floor(n * 2^FracBits / d), most significant limb first, followed by the
\* remainder: short division of the limbs of n * 2^FracBits by d
RECURSIVE DivFrom(_, _, _, _)
DivFrom(n, d, k, rem) ==
    IF k < 1 THEN <<rem>>
    ELSE <<(rem * Base + FromInt(n)[k]) \div d>>
         \o DivFrom(n, d, k - 1, (rem * Base + FromInt(n)[k]) % d)

\* number of bits of the natural number n < 2^LimbBits
BitLen(n) == IF n = 0 THEN 0 ELSE CHOOSE b \in 1..LimbBits : Pow2(b - 1) <= n /\ n < Pow2(b)

\* position of the most significant 1 bit of x # 0
Msb(x) ==
    LET top == CHOOSE k \in LimbIx : x[k] # 0 /\ \A j \in LimbIx : j > k => x[j] = 0
    IN LimbBits * (top - 1) + BitLen(x[top]) - 1

\* bit b of x
Bit(x, b) == (x[b \div LimbBits + 1] \div Pow2(b % LimbBits)) % 2

\* x with the bits below position b cleared
ClearBelow(x, b) ==
    [k \in LimbIx |->
        IF k < b \div LimbBits + 1 THEN 0
        ELSE IF k = b \div LimbBits + 1 THEN x[k] - (x[k] % Pow2(b % LimbBits))
        ELSE x[k]]

\* The exact value x (plus a non-zero tail below its last bit when sticky)
\* rounded to MantBits significant bits, half to even.
Round(x, sticky) ==
    IF x = FZero THEN x
    ELSE LET cut == Msb(x) - (MantBits - 1)
         IN IF cut <= 0 THEN x
            ELSE LET guard == Bit(x, cut - 1)
                     tail == sticky \/ ClearBelow(x, cut - 1) # x
                     low == ClearBelow(x, cut)
                 IN IF guard = 1 /\ (tail \/ Bit(x, cut) = 1)
                    THEN AddFrom(low, BitAt(cut), 1, 0)
                    ELSE low

\* the double n / d, for ints 0 <= n <= d, 0 < d < 2^9
FDiv(n, d) ==
    LET qr == DivFrom(n, d, Limbs, 0)
    IN Round([k \in LimbIx |-> qr[Limbs + 1 - k]], qr[Limbs + 1] # 0)

\* the double c * x for an int 0 <= c < 2^12 (Python converts c to float first)
FMulInt(c, x) == Round(MulFrom(c, x, 1, 0), FALSE)

\* the double x + y
FAdd(x, y) == Round(AddFrom(x, y, 1, 0), FALSE)

\* the double x - y, for x >= y
FSub(x, y) == Round(SubFrom(x, y, 1, 0), FALSE)

\* int(x): truncation towards zero, for x < 2^16
FTrunc(x) == x[FracBits \div LimbBits + 1]

\* the double literals 0.4 and 0.25
F04 == FDiv(2, 5)
F025 == FDiv(1, 4)

\* int(size * 0.04): the factor mistyped
RadiusSmall(sz) == FTrunc(FMulInt(sz, FDiv(1, 25)))

(***************************************************************************)
(* draw_circle_gradient's arithmetic.                                      *)
(***************************************************************************)
\* radius = int(size * 0.4)
Radius(sz) == FTrunc(FMulInt(sz, F04))

\* cx = cy = size // 2
Centre(sz) == sz \div 2

\* One channel of the fill of ring j of a gradient of radius r (r > 0):
\* int(colors[0][ch] * ratio + colors[1][ch] * (1 - ratio)), ratio = j / r.
BlendChannel(ch, j, r) ==
    LET ratio == FDiv(j, r)
    IN FTrunc(FAdd(FMulInt(colors[1][ch], ratio),
                   FMulInt(colors[2][ch], FSub(FromInt(1), ratio))))

\* the two brand colours taken in the other order
BlendSwapped(j, r) ==
    <<BlendChannel(1, r - j, r), BlendChannel(2, r - j, r), BlendChannel(3, r - j, r)>>

\* the fill (r, g, b) of ring j
Blend(j, r) == <<BlendChannel(1, j, r), BlendChannel(2, j, r), BlendChannel(3, j, r)>>

\* range(radius, 1, -1): the last ring is left out
RangeStopsAtOne(j) == j > 1

\* range(radius, -1, -1): ring 0 is included
RangeIncludesZero(j) == j >= 0

\* range(radius, 0, -1) yields j while j is above the stop value 0
RangeHasNext(j) == j > 0

\* The canvas sides the model draws on, and the tables of the values above for
\* them (each is computed once).
Sides == (0..MaxSize) \cup {targets[k][1] : k \in DOMAIN targets}
RadiusTable == [sz \in Sides |-> Radius(sz)]
BlendTable ==
    [r \in {RadiusTable[sz] : sz \in Sides} \ {0} |-> [j \in 0..r |-> Blend(j, r)]]

(***************************************************************************)
(* Images.  A canvas is held as its side, the pixels (cx, cy + d) on the   *)
(* vertical ray from the centre to the bottom edge (d = 0 is the centre    *)
(* pixel; a disc of radius j centred there covers exactly d <= j), and the *)
(* draw calls of draw_accent in the order they were made.                  *)
(***************************************************************************)
Opaque(rgb) == <<rgb[1], rgb[2], rgb[3], 255>>

Ray(sz) == 0..(sz - 1 - Centre(sz))

NoImage == [side |-> 0, px |-> <<>>, ops |-> <<>>]

\* Image.new("RGBA", (size, size), background)
ImageNew(sz) == [side |-> sz, px |-> [d \in Ray(sz) |-> Opaque(background)], ops |-> <<>>]

\* draw.ellipse((cx - j, cy - j, cx + j, cy + j), fill=fill)
DrawDisc(image, j, fill) ==
    [image EXCEPT !.px = [d \in DOMAIN image.px |-> IF d <= j THEN fill ELSE image.px[d]]]

Max(a, b) == IF a >= b THEN a ELSE b

\* max(1, size // 8)
Width1Coarse(sz) == Max(1, sz \div 8)

\* width = max(1, size // 16)
Width1(sz) == Max(1, sz \div 16)
\* width = max(2, size // 12)
Width2(sz) == Max(2, sz \div 12)
\* highlight = int(radius * 0.25)
Highlight(r) == FTrunc(FMulInt(r, F025))

\* The three draw calls of draw_accent.  Box coordinates are in tenths of a
\* pixel (cx - radius * 0.7 is 10 * cx - 7 * radius tenths).
AccentOps(r, x, y, sz) ==
    LET h == Highlight(r)
    IN << [op |-> "arc",
           box |-> <<10 * x - 7 * r, 10 * y - 3 * r, 10 * x + 7 * r, 10 * y + 5 * r>>,
           start |-> 200, end |-> 340, fill |-> <<244, 251, 255>>, width |-> Width1(sz)],
          [op |-> "arc",
           box |-> <<10 * x - 6 * r, 10 * y - 1 * r, 10 * x + 6 * r, 10 * y + 9 * r>>,
           start |-> 120, end |-> 220, fill |-> <<18, 168, 195>>, width |-> Width2(sz)],
          [op |-> "ellipse",
           box |-> <<10 * x - 10 * h, 10 * y - 6 * h, 10 * x - 2 * h, 10 * y>>,
           fill |-> <<244, 251, 255>>] >>

(***************************************************************************)
(* Files.                                                                  *)
(***************************************************************************)
NoFiles == [f \in {} |-> NoImage]
Put(d, f, c) == [g \in (DOMAIN d) \cup {f} |-> IF g = f THEN c ELSE d[g]]
Remove(d, f) == [g \in (DOMAIN d) \ {f} |-> d[g]]

\* a file that was in logo_dir before the first run
Stale == [fmt |-> "stale"]
\* what a save that faulted midway leaves behind
Partial == [fmt |-> "partial"]

\* an encoding that embeds which invocation wrote the file
PngEncodeStamped(image) == [fmt |-> "PNG", mode |-> "RGBA", image |-> image, stamp |-> run]

\* img.save(path) of a canvas: the PNG encoding holds the image and nothing else
PngEncode(image) == [fmt |-> "PNG", mode |-> "RGBA", image |-> image]
\* Image.open(path) of a PNG file
PngDecode(file) == file.image

\* base.resize((sz, sz), Image.LANCZOS): a copy when the size is unchanged,
\* otherwise the Lanczos resampling of the image
Resize(image, sz) ==
    IF image.side = sz THEN image
    ELSE [side |-> sz, filter |-> "LANCZOS", of |-> image]

\* sorted(set(sizes))
RECURSIVE SortedSeq(_)
SortedSeq(S) ==
    IF S = {} THEN <<>>
    ELSE LET m == CHOOSE a \in S : \A b \in S : a <= b
         IN <<m>> \o SortedSeq(S \ {m})

\* The frames Pillow's ICO writer stores for im.save(format="ICO", sizes=sizes)
\* when no append_images are given: for each requested size in ascending order,
\* sizes larger than the image being saved (or than 256) are skipped; the image
\* itself is stored at its own size and a Lanczos thumbnail of it otherwise.
IcoFrames(im, sizes) ==
    LET wanted == SortedSeq({sizes[k] : k \in DOMAIN sizes})
        kept == SelectSeq(wanted, LAMBDA sz : sz <= im.side /\ sz <= 256)
    IN [k \in DOMAIN kept |-> Resize(im, kept[k])]

IcoEncode(im, sizes) == [fmt |-> "ICO", frames |-> IcoFrames(im, sizes)]

(***************************************************************************)
(* Initial states: the first invocation, with logo_dir absent, or present  *)
(* as a directory holding any subset of the four files from earlier, or    *)
(* occupied by a non-directory.                                            *)
(***************************************************************************)
Locals ==
    /\ idx = 1 /\ size = 0 /\ img = NoImage
    /\ radius = 0 /\ cx = 0 /\ cy = 0 /\ i = 0 /\ discs = 0
    /\ base = NoImage /\ icons = <<>> /\ err = ""

Init ==
    /\ pc = "mkdir"
    /\ dir \in {"absent", "dir", "file"}
    /\ disk \in IF dir = "dir"
                THEN {[f \in S |-> Stale] : S \in SUBSET FileNames}
                ELSE {NoFiles}
    /\ written = {}
    /\ run = 1
    /\ prev = NoFiles
    /\ Locals

\* an uncaught exception: the interpreter stops
Raise(e) == pc' = "aborted" /\ err' = e

\* logo_dir.mkdir(parents=True) without exist_ok: an existing directory raises
MkdirNoExistOk ==
    /\ pc = "mkdir"
    /\ \/ /\ dir = "absent"
          /\ dir' = "dir"
          /\ pc' = "for"
          /\ UNCHANGED err
       \/ /\ dir = "absent"
          /\ Raise("PermissionError")
          /\ UNCHANGED dir
       \/ /\ dir \in {"dir", "file"}
          /\ Raise("FileExistsError")
          /\ UNCHANGED dir
    /\ UNCHANGED <<disk, written, idx, size, img, radius, cx, cy, i, discs,
                   base, icons, run, prev>>

(***************************************************************************)
(* logo_dir.mkdir(parents=True, exist_ok=True)                             *)
(***************************************************************************)
Mkdir ==
    /\ pc = "mkdir"
    /\ \/ /\ dir = "dir"
          /\ pc' = "for"
          /\ UNCHANGED <<dir, err>>
       \/ /\ dir = "absent"
          /\ dir' = "dir"
          /\ pc' = "for"
          /\ UNCHANGED err
       \/ /\ dir = "absent"
          /\ Raise("PermissionError")
          /\ UNCHANGED dir
       \/ /\ dir = "file"
          /\ Raise("FileExistsError")
          /\ UNCHANGED dir
    /\ UNCHANGED <<disk, written, idx, size, img, radius, cx, cy, i, discs,
                   base, icons, run, prev>>

(***************************************************************************)
(* for size, filename in [...]: the loop takes its next item, or ends      *)
(***************************************************************************)
ForNext ==
    /\ pc = "for"
    /\ \/ /\ idx <= Len(targets)
          /\ size' = targets[idx][1]
          /\ pc' = "new"
       \/ /\ idx > Len(targets)
          /\ pc' = "open"
          /\ UNCHANGED size
    /\ UNCHANGED <<dir, disk, written, idx, img, radius, cx, cy, i, discs,
                   base, icons, err, run, prev>>

\* img = Image.new(...); draw = ImageDraw.Draw(img)
NewCanvas ==
    /\ pc = "new"
    /\ img' = ImageNew(size)
    /\ discs' = 0
    /\ pc' = "gradient"
    /\ UNCHANGED <<dir, disk, written, idx, size, radius, cx, cy, i,
                   base, icons, err, run, prev>>

(***************************************************************************)
(* draw_circle_gradient(img, draw)                                         *)
(***************************************************************************)
GradientEnter ==
    /\ pc = "gradient"
    /\ cx' = Centre(img.side)
    /\ cy' = Centre(img.side)
    /\ radius' = RadiusTable[img.side]
    /\ i' = RadiusTable[img.side]
    /\ pc' = "ring"
    /\ UNCHANGED <<dir, disk, written, idx, size, img, discs,
                   base, icons, err, run, prev>>

\* one iteration of the loop body; i / radius raises when radius is 0
GradientRing ==
    /\ pc = "ring"
    /\ RangeHasNext(i)
    /\ IF radius = 0
       THEN /\ Raise("ZeroDivisionError")
            /\ UNCHANGED <<img, discs, i>>
       ELSE /\ img' = DrawDisc(img, i, Opaque(BlendTable[radius][i]))
            /\ discs' = discs + 1
            /\ i' = i - 1
            /\ UNCHANGED <<pc, err>>
    /\ UNCHANGED <<dir, disk, written, idx, size, radius, cx, cy,
                   base, icons, run, prev>>

\* the range is exhausted: return radius, cx, cy
GradientReturn ==
    /\ pc = "ring"
    /\ ~RangeHasNext(i)
    /\ pc' = "accent"
    /\ UNCHANGED <<dir, disk, written, idx, size, img, radius, cx, cy, i, discs,
                   base, icons, err, run, prev>>

\* draw_accent(draw, radius, cx, cy, size)
Accent ==
    /\ pc = "accent"
    /\ img' = [img EXCEPT !.ops = AccentOps(radius, cx, cy, size)]
    /\ pc' = "save"
    /\ UNCHANGED <<dir, disk, written, idx, size, radius, cx, cy, i, discs,
                   base, icons, err, run, prev>>

\* a save whose fault is caught and logged, the loop going on to the next size
SavePngContinue ==
    /\ pc = "save"
    /\ LET f == targets[idx][2]
       IN \/ /\ disk' = Put(disk, f, PngEncode(img))
             /\ written' = written \cup {f}
             /\ UNCHANGED err
          \/ /\ disk' \in {disk, Put(disk, f, Partial)}
             /\ err' = "OSError"
             /\ UNCHANGED written
    /\ idx' = idx + 1
    /\ pc' = "for"
    /\ UNCHANGED <<dir, size, img, radius, cx, cy, i, discs,
                   base, icons, run, prev>>

(***************************************************************************)
(* img.save(logo_dir / filename).  A save that faults leaves the target    *)
(* untouched (it could not be opened) or holding a partial file.           *)
(***************************************************************************)
SavePng ==
    /\ pc = "save"
    /\ LET f == targets[idx][2]
       IN \/ /\ disk' = Put(disk, f, PngEncode(img))
             /\ written' = written \cup {f}
             /\ idx' = idx + 1
             /\ pc' = "for"
             /\ UNCHANGED err
          \/ /\ disk' \in {disk, Put(disk, f, Partial)}
             /\ Raise("OSError")
             /\ UNCHANGED <<written, idx>>
    /\ UNCHANGED <<dir, size, img, radius, cx, cy, i, discs,
                   base, icons, run, prev>>

\* a composer that falls back to the canvas still in memory when the file is missing
OpenBaseFallback ==
    /\ pc = "open"
    /\ \/ /\ Png32 \in DOMAIN disk
          /\ disk[Png32].fmt = "PNG"
          /\ base' = PngDecode(disk[Png32])
          /\ pc' = "resize"
          /\ UNCHANGED err
       \/ /\ Png32 \in DOMAIN disk
          /\ Raise("OSError")
          /\ UNCHANGED base
       \/ /\ Png32 \notin DOMAIN disk
          /\ base' = img
          /\ pc' = "resize"
          /\ UNCHANGED err
    /\ UNCHANGED <<dir, disk, written, idx, size, img, radius, cx, cy, i, discs,
                   icons, run, prev>>

(***************************************************************************)
(* base = Image.open(logo_dir / "favicon-32x32.png")                       *)
(***************************************************************************)
OpenBase ==
    /\ pc = "open"
    /\ \/ /\ Png32 \in DOMAIN disk
          /\ disk[Png32].fmt = "PNG"
          /\ base' = PngDecode(disk[Png32])
          /\ pc' = "resize"
          /\ UNCHANGED err
       \/ /\ Png32 \in DOMAIN disk
          /\ Raise("OSError")
          /\ UNCHANGED base
       \/ /\ Png32 \notin DOMAIN disk
          /\ Raise("FileNotFoundError")
          /\ UNCHANGED base
    /\ UNCHANGED <<dir, disk, written, idx, size, img, radius, cx, cy, i, discs,
                   icons, run, prev>>

\* icons = [base.resize(size, Image.LANCZOS) for size in ico_sizes]
ResizeAll ==
    /\ pc = "resize"
    /\ icons' = [k \in DOMAIN ico_sizes |-> Resize(base, ico_sizes[k])]
    /\ pc' = "icosave"
    /\ UNCHANGED <<dir, disk, written, idx, size, img, radius, cx, cy, i, discs,
                   base, err, run, prev>>

\* icons[0].save(logo_dir / "favicon.ico", format="ICO", sizes=ico_sizes)
IcoSave ==
    /\ pc = "icosave"
    /\ \/ /\ disk' = Put(disk, Ico, IcoEncode(icons[1], ico_sizes))
          /\ written' = written \cup {Ico}
          /\ pc' = "done"
          /\ UNCHANGED err
       \/ /\ disk' \in {disk, Put(disk, Ico, Partial)}
          /\ Raise("OSError")
          /\ UNCHANGED written
    /\ UNCHANGED <<dir, idx, size, img, radius, cx, cy, i, discs,
                   base, icons, run, prev>>

\* the script, one statement at a time
Script ==
    \/ Mkdir
    \/ ForNext
    \/ NewCanvas
    \/ GradientEnter
    \/ GradientRing
    \/ GradientReturn
    \/ Accent
    \/ SavePng
    \/ OpenBase
    \/ ResizeAll
    \/ IcoSave

(***************************************************************************)
(* The script is invoked again after a run that completed: a new process,  *)
(* the same disk.                                                          *)
(***************************************************************************)
Rerun ==
    /\ pc = "done"
    /\ run < MaxRuns
    /\ run' = run + 1
    /\ prev' = disk
    /\ pc' = "mkdir"
    /\ written' = {}
    /\ idx' = 1 /\ size' = 0 /\ img' = NoImage
    /\ radius' = 0 /\ cx' = 0 /\ cy' = 0 /\ i' = 0 /\ discs' = 0
    /\ base' = NoImage /\ icons' = <<>> /\ err' = ""
    /\ UNCHANGED <<dir, disk>>

Next == Script \/ Rerun

Spec == Init /\ [][Next]_vars

(***************************************************************************)
(* draw_circle_gradient on its own, on a fresh canvas of any side up to    *)
(* MaxSize.                                                                *)
(***************************************************************************)
InitGrad ==
    /\ pc = "new"
    /\ dir = "dir"
    /\ disk = NoFiles
    /\ written = {}
    /\ run = 1
    /\ prev = NoFiles
    /\ idx = 1 /\ img = NoImage
    /\ radius = 0 /\ cx = 0 /\ cy = 0 /\ i = 0 /\ discs = 0
    /\ base = NoImage /\ icons = <<>> /\ err = ""
    /\ size \in 0..MaxSize

NextGrad == NewCanvas \/ GradientEnter \/ GradientRing \/ GradientReturn

SpecGrad == InitGrad /\ [][NextGrad]_vars

\* the interpreter keeps executing the function until it returns
SpecGradFair == SpecGrad /\ WF_vars(NextGrad)

(***************************************************************************)
(* The script running while something else removes files from logo_dir.    *)
(***************************************************************************)
EnvRemove ==
    /\ pc \notin {"done", "aborted"}
    /\ \E f \in DOMAIN disk : disk' = Remove(disk, f)
    /\ UNCHANGED <<pc, dir, written, idx, size, img, radius, cx, cy, i, discs,
                   base, icons, err, run, prev>>

NextEnv == Script \/ Rerun \/ EnvRemove

SpecEnv == Init /\ [][NextEnv]_vars

(***************************************************************************)
(* The properties.                                                         *)
(***************************************************************************)
Abs(n) == IF n < 0 THEN -n ELSE n

\* the gradient has returned and the accents are not drawn yet
GradientDone == pc = "accent"

\* C1 (as claimed): after a successful run favicon.ico holds exactly three
\* frames, 16x16, 32x32 and 64x64, each the resampling of the 32x32 master
\* read from favicon-32x32.png, the 32x32 frame being the master itself.
C1_IcoHasThreeFrames ==
    pc = "done" =>
        LET master == PngDecode(disk[Png32])
            frames == disk[Ico].frames
        IN /\ Len(frames) = 3
           /\ \A k \in 1..3 : /\ frames[k].side = ico_sizes[k]
                              /\ frames[k] = Resize(master, ico_sizes[k])
           /\ frames[2] = master

\* C2 (as claimed): after draw_circle_gradient the centre of the disc (ring 1)
\* is the first brand colour within 1 per channel and the rim (ring radius) is
\* the second brand colour.
C2_CentreFirstRimSecond ==
    GradientDone =>
        /\ \A ch \in 1..3 : Abs(img.px[0][ch] - colors[1][ch]) <= 1
        /\ img.px[radius] = Opaque(colors[2])

\* C2 (amended): the colours are the other way round.  After
\* draw_circle_gradient the rim (ring radius) is exactly the first brand colour
\* and the centre (ring 1) is, per channel, the second brand colour plus
\* (first - second) \div radius.
C2_RimFirstCentreNearSecond ==
    GradientDone =>
        /\ img.px[radius] = Opaque(colors[1])
        /\ \A ch \in 1..3 :
               img.px[0][ch] = colors[2][ch] + (colors[1][ch] - colors[2][ch]) \div radius
        /\ img.px[0][4] = 255

C2_Witness ==
    GradientDone /\ size = 16 /\ radius = 6 /\ discs = 6 /\ img.px[0] = <<7, 202, 176, 255>>

\* C3: the directory exists before any file is written, creating it does not
\* fail when it already exists, and a run that completes has written exactly
\* the four files into the directory, which exists.
C3_DirectoryThenFourFiles ==
    /\ written # {} => dir = "dir"
    /\ pc \notin {"mkdir", "aborted"} => dir = "dir"
    /\ dir = "dir" => err \notin {"FileExistsError", "PermissionError"}
    /\ pc = "done" => /\ dir = "dir"
                      /\ written = {Png16, Png32, PngApple, Ico}
                      /\ \A f \in written : f \in DOMAIN disk

C3_Witness ==
    pc = "done" /\ run = 1 /\ dir = "dir" /\ written = FileNames /\ DOMAIN disk = FileNames

\* C4: favicon.ico is written only after this run's exporter loop has saved
\* favicon-32x32.png, and a composer that starts with favicon-32x32.png
\* missing fails without writing favicon.ico.
C4_IcoNeedsPng32 ==
    /\ [](err = "FileNotFoundError" => (pc = "aborted" /\ Ico \notin written))
    /\ [][ /\ (Ico \in written' /\ Ico \notin written) => Png32 \in written
           /\ (pc = "open" /\ pc' # "open" /\ Png32 \notin DOMAIN disk)
                  => (pc' = "aborted" /\ err' = "FileNotFoundError" /\ written' = written) ]_vars

C4_Witness ==
    /\ pc = "aborted" /\ err = "FileNotFoundError"
    /\ Png32 \in written /\ Png32 \notin DOMAIN disk
    /\ Ico \notin written

\* C5: the run is fail-fast without rollback.  A fault stops the run at that
\* step (nothing runs after it, nothing is retried), the files written are
\* exactly those of the steps before it, and they stay on disk unchanged; when
\* the second PNG save faults favicon-16x16.png remains and neither
\* apple-touch-icon.png nor favicon.ico is written.
C5_FailFastNoRollback ==
    /\ [](err # "" <=> pc = "aborted")
    /\ [](pc = "aborted" =>
             /\ written = {targets[k][2] : k \in 1..(idx - 1)}
             /\ \A f \in written : f \in DOMAIN disk /\ disk[f].fmt = "PNG")
    /\ []((pc = "aborted" /\ idx = 2) =>
             /\ Png16 \in DOMAIN disk /\ disk[Png16].fmt = "PNG"
             /\ PngApple \notin written /\ Ico \notin written)
    /\ [][ /\ pc # "aborted"
           /\ pc' = "aborted" =>
                  /\ written' = written
                  /\ \A f \in written : f \in DOMAIN disk' /\ disk'[f] = disk[f] ]_vars

C5_Witness ==
    /\ pc = "aborted" /\ err = "OSError" /\ idx = 2
    /\ written = {Png16} /\ disk[Png16].fmt = "PNG"
    /\ Png32 \in DOMAIN disk /\ disk[Png32] = Partial

\* the canvas the exporter saves for a side: a function of the side alone
FinalCanvas(sz) ==
    LET r == Radius(sz)
    IN [side |-> sz,
        px |-> [d \in Ray(sz) |-> IF r > 0 /\ d <= r THEN Opaque(Blend(Max(d, 1), r))
                                  ELSE Opaque(background)],
        ops |-> AccentOps(r, Centre(sz), Centre(sz), sz)]
FinalPng == [k \in DOMAIN targets |-> PngEncode(FinalCanvas(targets[k][1]))]

\* C6: the generator is deterministic.  Each PNG a run has written has the
\* contents fixed by its size alone, whatever was in the directory before, and
\* a run that starts on the outputs of the previous run writes each PNG with
\* the contents it had.
C6_Deterministic ==
    \A k \in DOMAIN targets :
        LET f == targets[k][2]
        IN f \in written =>
               /\ disk[f] = FinalPng[k]
               /\ run > 1 => disk[f] = prev[f]

C6_Witness ==
    run = 2 /\ pc = "done" /\ {Png16, Png32, PngApple} \subseteq written /\ prev # NoFiles

\* C7: on every canvas the script creates (16, 32, 180) the geometry is
\* positive: the radius is >= 1 and both arc stroke widths are >= 1.
C7_GeometryPositive ==
    /\ pc \in {"ring", "accent", "save"} => (size \in {16, 32, 180} /\ radius >= 1)
    /\ pc = "save" => /\ img.ops[1].width >= 1
                      /\ img.ops[2].width >= 1

C7_Witness ==
    pc = "save" /\ size = 180 /\ radius = 72 /\ img.ops[1].width = 11 /\ img.ops[2].width = 15

\* C8: draw_circle_gradient draws exactly radius discs, the ring index going
\* down by one from radius to 1, and then returns; each point of the disc ends
\* with the blend of the smallest ring that covers it, the blend of ring j
\* being int(colors[0] * j/radius + colors[1] * (1 - j/radius)) per channel.
C8_RingsInOrder ==
    /\ [](pc = "ring" => (0 <= i /\ i <= radius /\ discs = radius - i))
    /\ [](GradientDone =>
             /\ discs = radius
             /\ \A d \in DOMAIN img.px :
                    img.px[d] = IF radius > 0 /\ d <= radius
                                THEN Opaque(Blend(Max(d, 1), radius))
                                ELSE Opaque(background))
    /\ [][ discs' # discs =>
               (discs' = discs + 1 /\ i >= 1 /\ i' = i - 1
                /\ \A d \in DOMAIN img.px :
                       img'.px[d] = IF d <= i THEN Opaque(Blend(i, radius)) ELSE img.px[d]) ]_vars
    /\ <>GradientDone

C8_Witness ==
    GradientDone /\ radius = 10 /\ discs = 10 /\ img.px[3] = <<13, 205, 189, 255>>
                 /\ img.px[0] = img.px[1] /\ img.px[10] = <<46, 227, 255, 255>>

\* C9: draw_circle_gradient never divides by zero: the ratio of a ring is
\* computed only when radius > 0, and when radius is 0 no disc is drawn and
\* the canvas is left as it was.
C9_NoDivisionByZero ==
    /\ err # "ZeroDivisionError"
    /\ discs > 0 => radius > 0
    /\ (pc \in {"ring", "accent"} /\ radius = 0) => (discs = 0 /\ img = ImageNew(size))

C9_Witness ==
    GradientDone /\ size = 2 /\ radius = 0 /\ discs = 0 /\ DOMAIN img.px = {0}

\* C10 (as claimed): at 16 px both arcs of draw_accent are stroked 1 wide.
C10_BothWidthsOne ==
    (pc = "save" /\ size = 16) => (img.ops[1].width = 1 /\ img.ops[2].width = 1)

\* C10 (amended): at 16 px the first arc of draw_accent is stroked 1 wide and
\* the second arc 2 wide, the minimum of its max(2, size // 12).
C10_WidthsOneAndTwo ==
    (pc = "save" /\ size = 16) => (img.ops[1].width = 1 /\ img.ops[2].width = 2)

C10_Witness ==
    pc = "save" /\ size = 16 /\ Len(img.ops) = 3 /\ img.ops[2].op = "arc"

====
